---------------------------- MODULE Spec2Model ----------------------------
(***************************************************************************)
(* Model of TEDxPS/survey-form.                                            *)
(*                                                                         *)
(*  - Client: the TEDxSurvey React component (TEDxSurvey.tsx): the bind    *)
(*    effect that subscribes handlers to the survey model's events, its    *)
(*    cleanup, the callback refs, and the file-upload handler.             *)
(*  - Server: handleSurveySubmission / saveToMongoDB / checkDuplicateEmail *)
(*    (server/index.ts) on top of dbConnect (mongodb.ts), run as           *)
(*    concurrent async calls that interleave at every await.               *)
(***************************************************************************)
EXTENDS Integers, Sequences, FiniteSets, TLC

VARIABLES
    \* ---- client: TEDxSurvey component ----
    mounted,            \* "no" (not rendered yet), "yes", "gone" (unmounted)
    renders,            \* number of renders so far
    customCss,          \* identity of the customCss object of the last render
    customCssGiven,     \* whether the caller passed customCss (else `= {}`)
    uploadApiUrl,       \* prop; "" is undefined
    otherCallbacks,     \* prop map: name -> caller function ("absent" = no key)
    onComplete,         \* prop; "absent" is undefined
    onCompleteRef,      \* onCompleteRef.current
    otherCallbacksRef,  \* otherCallbacksRef.current
    survey,             \* the model's events: event name -> set of subscribers
    effect,             \* closure of the bind effect that is in force
    addCalls,           \* every <<event, handler>> passed to .add, in order
    removeCalls,        \* every <<event, handler>> passed to .remove, in order
    fired,              \* what the last engine-fired event invoked
    uploads,            \* the upload events fired so far (their options objects)
    completions,        \* the runs of handleComplete started so far
    \* ---- server ----
    MONGODB_URI,        \* process.env.MONGO_URI read at module load; "" is unset
    cached,             \* global.mongoose: [conn, promise]
    promises,           \* the mongoose.connect promises created so far
    docs,               \* SurveyResponse collection (a set of documents)
    sheet,              \* rows appended to the spreadsheet
    calls,              \* the handleSurveySubmission / dbConnect calls started so far
    cachedStorage,      \* gcpbucket.ts: the cached Storage client
    cachedBucket,       \* gcpbucket.ts: the cached bucket handle
    bucketCalls         \* the getBucket calls made so far

clientVars == <<mounted, renders, customCss, customCssGiven, uploadApiUrl, otherCallbacks,
                onComplete, onCompleteRef, otherCallbacksRef, survey, effect,
                addCalls, removeCalls, fired, uploads, completions>>
bucketVars == <<cachedStorage, cachedBucket, bucketCalls>>
serverVars == <<MONGODB_URI, cached, promises, docs, sheet, calls, bucketVars>>
vars == <<clientVars, serverVars>>

-----------------------------------------------------------------------------
(* Bounds *)
MaxRenders == 2         \* renders of the component in one lifetime
MaxUploads == 1         \* upload events fired by the engine in one lifetime
MaxCompletions == 1     \* completion events fired by the engine in one lifetime
MaxConnects == 3        \* direct dbConnect calls in one process lifetime
MaxBucketCalls == 2     \* getBucket calls in one process lifetime
MaxCalls == 2           \* handleSurveySubmission calls in one process lifetime

-----------------------------------------------------------------------------
(* Client: TEDxSurvey.tsx *)

\* Names a caller may pass as extra props (...otherCallbacks).  "className" is
\* a prop that is no event of the survey model.
DynNames == <<"onValueChanged", "className">>
DynNameSet == {DynNames[i] : i \in DOMAIN DynNames}

\* Properties of the survey model that are events (have an add function).
SurveyEvents == {"onUpdateQuestionCssClasses", "onUploadFiles", "onComplete",
                 "onValueChanged"}

CallerFuncs == {"f", "g"}
PropMaps == [DynNameSet -> CallerFuncs \cup {"absent"}]
Urls == {"", "/api/upload"}
CompleteFuncs == {"absent", "c1", "c2"}

\* The closures the bind effect creates on its run number gen.
\* (url: the uploadApiUrl that handleUploadFiles closes over.)
handleUpdateCss(gen) == [role |-> "css", gen |-> gen, name |-> "", url |-> ""]
handleUploadFiles(gen, url) == [role |-> "upload", gen |-> gen, name |-> "", url |-> url]
handleComplete(gen) == [role |-> "complete", gen |-> gen, name |-> "", url |-> ""]
dynamicHandler(gen, name) == [role |-> "dyn", gen |-> gen, name |-> name, url |-> ""]

NoEffect == [gen |-> 0, customCss |-> 0, uploadApiUrl |-> ""]

\* event.add(h) / event.remove(h) applied to a list of <<event, handler>>.
RECURSIVE AddAll(_, _)
AddAll(s, pairs) ==
    IF pairs = <<>> THEN s
    ELSE AddAll([s EXCEPT ![pairs[1][1]] = @ \cup {pairs[1][2]}], Tail(pairs))

RECURSIVE RemoveAll(_, _)
RemoveAll(s, pairs) ==
    IF pairs = <<>> THEN s
    ELSE RemoveAll([s EXCEPT ![pairs[1][1]] = @ \ {pairs[1][2]}], Tail(pairs))

\* Object.entries(otherCallbacksRef.current).forEach: one add per key whose
\* name is an event of the survey model.
RECURSIVE DynamicAdds(_, _, _)
DynamicAdds(names, ref, gen) ==
    IF names = <<>> THEN <<>>
    ELSE (IF ref[names[1]] # "absent" /\ names[1] \in SurveyEvents
          THEN << <<names[1], dynamicHandler(gen, names[1])>> >>
          ELSE <<>>)
         \o DynamicAdds(Tail(names), ref, gen)

\* (Variant: the upload handler is added whatever the endpoint.)
EffectAddsAlways(gen, url, ref) ==
    << <<"onUpdateQuestionCssClasses", handleUpdateCss(gen)>>,
       <<"onUploadFiles", handleUploadFiles(gen, url)>>,
       <<"onComplete", handleComplete(gen)>> >>
    \o DynamicAdds(DynNames, ref, gen)

\* The add calls of one run of the bind effect, in source order.
EffectAdds(gen, url, ref) ==
    << <<"onUpdateQuestionCssClasses", handleUpdateCss(gen)>> >>
    \o (IF url # ""
        THEN << <<"onUploadFiles", handleUploadFiles(gen, url)>> >> ELSE <<>>)
    \o << <<"onComplete", handleComplete(gen)>> >>
    \o DynamicAdds(DynNames, ref, gen)

\* The remove calls of the cleanup returned by that run.
CleanupRemoves(e) ==
    IF e.gen = 0 THEN <<>>
    ELSE << <<"onUpdateQuestionCssClasses", handleUpdateCss(e.gen)>>,
            <<"onComplete", handleComplete(e.gen)>> >>
         \o (IF e.uploadApiUrl # ""
             THEN << <<"onUploadFiles", handleUploadFiles(e.gen, e.uploadApiUrl)>> >>
             ELSE <<>>)

\* One commit: the ref-update effect, then (when the deps [survey, customCss,
\* uploadApiUrl] changed, or on mount) the old cleanup and the bind effect.
Commit(css, given, url, cbs, oc) ==
    LET rebind == effect.gen = 0 \/ css # effect.customCss \/ url # effect.uploadApiUrl
        gen == effect.gen + 1
        rm == CleanupRemoves(effect)
        ad == EffectAdds(gen, url, cbs)
    IN  /\ customCss' = css
        /\ customCssGiven' = given
        /\ uploadApiUrl' = url
        /\ otherCallbacks' = cbs
        /\ onComplete' = oc
        /\ onCompleteRef' = oc
        /\ otherCallbacksRef' = cbs
        /\ renders' = renders + 1
        /\ IF rebind
           THEN /\ survey' = AddAll(RemoveAll(survey, rm), ad)
                /\ effect' = [gen |-> gen, customCss |-> css, uploadApiUrl |-> url]
                /\ addCalls' = addCalls \o ad
                /\ removeCalls' = removeCalls \o rm
           ELSE UNCHANGED <<survey, effect, addCalls, removeCalls>>

\* First render and mount.
Mount ==
    /\ mounted = "no"
    /\ \E given \in BOOLEAN, url \in Urls, cbs \in PropMaps, oc \in CompleteFuncs :
         Commit(1, given, url, cbs, oc)
    /\ mounted' = "yes"
    /\ UNCHANGED <<fired, uploads, completions, serverVars>>

\* A later render.  The caller passes the customCss object of the previous
\* render again ("same"), another object ("new"), or none ("omitted": the
\* parameter default `customCss = {}` then makes a new object).
Rerender ==
    /\ mounted = "yes"
    /\ renders < MaxRenders
    /\ \E css \in {"same", "new", "omitted"}, url \in Urls, cbs \in PropMaps,
          oc \in CompleteFuncs :
         /\ css = "same" => customCssGiven
         /\ Commit(IF css = "same" THEN customCss ELSE customCss + 1,
                   css # "omitted", url, cbs, oc)
    /\ UNCHANGED <<mounted, fired, uploads, completions, serverVars>>

\* Unmount: React runs the cleanup of the bind effect in force.
Unmount ==
    /\ mounted = "yes"
    /\ mounted' = "gone"
    /\ survey' = RemoveAll(survey, CleanupRemoves(effect))
    /\ removeCalls' = removeCalls \o CleanupRemoves(effect)
    /\ effect' = NoEffect
    /\ UNCHANGED <<renders, customCss, customCssGiven, uploadApiUrl,
                   otherCallbacks, onComplete,
                   onCompleteRef, otherCallbacksRef, addCalls, fired, uploads,
                   completions, serverVars>>

\* The engine fires a (non built-in) event: every subscribed dynamicHandler
\* looks up otherCallbacksRef.current[name] and calls it when it is a function.
DynamicCalls(ev) ==
    IF otherCallbacksRef[ev] \in CallerFuncs
    THEN Cardinality({h \in survey[ev] : h.role = "dyn" /\ h.name = ev})
    ELSE 0

FireEvent ==
    /\ mounted = "yes"
    /\ \E ev \in DynNameSet \cap SurveyEvents :
         fired' = [event |-> ev, func |-> otherCallbacksRef[ev],
                   calls |-> DynamicCalls(ev)]
    /\ UNCHANGED <<mounted, renders, customCss, customCssGiven, uploadApiUrl,
                   otherCallbacks,
                   onComplete, onCompleteRef, otherCallbacksRef, survey, effect,
                   addCalls, removeCalls, uploads, completions, serverVars>>

\* ---- file upload (handleUploadFiles) ----

\* How the POST issued by fetch can end.
FetchOutcomes == {"network_error", "unparseable", "ok"}

\* The body of handleUploadFiles run on the engine's options object.
UploadHandlerBody(options, url) ==
    IF url = "" THEN options
    ELSE [options EXCEPT !.callback = "success",    \* options.callback = "success"
                         !.posts = @ + 1,           \* fetch(uploadApiUrl, POST)
                         !.pending = @ + 1]

RECURSIVE RunUploadHandlers(_, _)
RunUploadHandlers(options, hs) ==
    IF hs = {} THEN options
    ELSE LET h == CHOOSE x \in hs : TRUE
         IN  RunUploadHandlers(UploadHandlerBody(options, h.url), hs \ {h})

\* options.callback(...): a call of anything but the engine's function throws.
CallThrows(options) == options.callback # "function"

\* fetch(...).then(res => res.json()).then(data => callback("success", data))
\*           .catch(err => { console.error(...); callback("error") })
\* run to its end on one settled request.
PromiseChain(options, outcome) ==
    LET parsed == outcome = "ok"
        successCalled == parsed /\ ~CallThrows(options)
        caught == ~successCalled
        errorCalled == caught /\ ~CallThrows(options)
    IN  [options EXCEPT !.pending = @ - 1,
                        !.outcomes = Append(@, outcome),
                        !.successCalls = @ + (IF successCalled THEN 1 ELSE 0),
                        !.errorCalls = @ + (IF errorCalled THEN 1 ELSE 0),
                        !.unhandled = @ + (IF caught /\ ~errorCalled THEN 1 ELSE 0)]

\* The engine fires onUploadFiles with a fresh options object.
FireUpload ==
    /\ mounted = "yes"
    /\ Len(uploads) < MaxUploads
    /\ survey["onUploadFiles"] # {}
    /\ uploads' = Append(uploads,
           RunUploadHandlers([callback |-> "function", posts |-> 0, pending |-> 0,
                              outcomes |-> <<>>, successCalls |-> 0,
                              errorCalls |-> 0, unhandled |-> 0],
                             {h \in survey["onUploadFiles"] : h.role = "upload"}))
    /\ UNCHANGED <<mounted, renders, customCss, customCssGiven, uploadApiUrl,
                   otherCallbacks,
                   onComplete, onCompleteRef, otherCallbacksRef, survey, effect,
                   addCalls, removeCalls, fired, completions, serverVars>>

\* A request issued by the upload handler settles; the promise chain runs.
FetchSettles ==
    /\ \E i \in DOMAIN uploads, outcome \in FetchOutcomes :
         /\ uploads[i].pending > 0
         /\ uploads' = [uploads EXCEPT ![i] = PromiseChain(@, outcome)]
    /\ UNCHANGED <<mounted, renders, customCss, customCssGiven, uploadApiUrl,
                   otherCallbacks,
                   onComplete, onCompleteRef, otherCallbacksRef, survey, effect,
                   addCalls, removeCalls, fired, completions, serverVars>>

\* ---- completion (handleComplete) ----

\* What calling the caller's onComplete gives at once: a promise still
\* pending (an async callback), a plain return, or a synchronous throw.
CallbackResults == {"pending", "resolved", "rejected"}

\* handleComplete, lines 95-98, up to its await: the callback looked up in
\* onCompleteRef.current is called (cb "none": there is none to call).
\* (prop: the onComplete of the latest render, kept for comparison.)
CompleteStart(result) ==
    [func |-> onCompleteRef, prop |-> onComplete,
     cb |-> IF onCompleteRef = "absent" THEN "none" ELSE result,
     handler |-> "running"]

\* (Variant: the callback's promise is not awaited.)
AwaitSkipped(r) == TRUE

\* await onCompleteRef.current(sender): handleComplete goes on only when
\* what the callback returned has settled.
AwaitDone(r) == r.cb # "pending"

\* The engine fires onComplete; the subscribed handleComplete starts.
FireComplete ==
    /\ mounted = "yes"
    /\ Len(completions) < MaxCompletions
    /\ \E h \in survey["onComplete"], result \in CallbackResults :
         /\ h.role = "complete"
         /\ completions' = Append(completions, CompleteStart(result))
    /\ UNCHANGED <<mounted, renders, customCss, customCssGiven, uploadApiUrl,
                   otherCallbacks, onComplete, onCompleteRef, otherCallbacksRef,
                   survey, effect, addCalls, removeCalls, fired, uploads,
                   serverVars>>

\* The promise returned by an async onComplete settles.
CallbackSettles ==
    /\ \E i \in DOMAIN completions, outcome \in {"resolved", "rejected"} :
         /\ completions[i].cb = "pending"
         /\ completions' = [completions EXCEPT ![i].cb = outcome]
    /\ UNCHANGED <<mounted, renders, customCss, customCssGiven, uploadApiUrl,
                   otherCallbacks, onComplete, onCompleteRef, otherCallbacksRef,
                   survey, effect, addCalls, removeCalls, fired, uploads,
                   serverVars>>

\* handleComplete, lines 98-100: after the await the handler finishes.
CompleteFinishes ==
    /\ \E i \in DOMAIN completions :
         /\ completions[i].handler = "running"
         /\ AwaitDone(completions[i])
         /\ completions' = [completions EXCEPT ![i].handler = "finished"]
    /\ UNCHANGED <<mounted, renders, customCss, customCssGiven, uploadApiUrl,
                   otherCallbacks, onComplete, onCompleteRef, otherCallbacksRef,
                   survey, effect, addCalls, removeCalls, fired, uploads,
                   serverVars>>

\* let cachedStorage = null; let cachedBucket = null
NoStorage == [id |-> 0, credentials |-> ""]
NoBucket == [name |-> "", storage |-> NoStorage]

ClientInit ==
    /\ mounted = "no"
    /\ renders = 0
    /\ customCss = 0
    /\ customCssGiven = FALSE
    /\ uploadApiUrl = ""
    /\ otherCallbacks = [n \in DynNameSet |-> "absent"]
    /\ onComplete = "absent"
    /\ onCompleteRef = "absent"
    /\ otherCallbacksRef = [n \in DynNameSet |-> "absent"]
    /\ survey = [ev \in SurveyEvents |-> {}]
    /\ effect = NoEffect
    /\ addCalls = <<>>
    /\ removeCalls = <<>>
    /\ fired = [event |-> "", func |-> "absent", calls |-> 0]
    /\ uploads = <<>>
    /\ completions = <<>>

\* The server process at start: MONGO_URI is not set in the environment
\* (callers pass options.mongoUri), nothing is cached, the stores are empty.
ServerInit ==
    /\ MONGODB_URI = ""
    /\ cached = [conn |-> 0, promise |-> 0]
    /\ promises = <<>>
    /\ docs = {}
    /\ sheet = <<>>
    /\ calls = <<>>
    /\ cachedStorage = NoStorage
    /\ cachedBucket = NoBucket
    /\ bucketCalls = <<>>

InitClient == ClientInit /\ ServerInit

NextClient ==
    \/ Mount
    \/ Rerender
    \/ Unmount
    \/ FireEvent
    \/ FireUpload
    \/ FetchSettles

SpecClient == InitClient /\ [][NextClient]_vars

\* The component with completion events (and no other engine event).
NextComplete ==
    \/ Mount
    \/ Rerender
    \/ Unmount
    \/ FireComplete
    \/ CallbackSettles
    \/ CompleteFinishes

SpecComplete == InitClient /\ [][NextComplete]_vars

-----------------------------------------------------------------------------
(* Server: server/index.ts on mongodb.ts *)

\* Payloads (data): the object's own properties in iteration order.
Payloads == { << <<"name", "Ann">>, <<"email", "a@x.com">> >>,
              << <<"Email", "a@x.com">>, <<"name", "Bob">> >>,
              << <<"name", "Ann">> >> }

\* options of handleSurveySubmission; mongoUri "" is undefined (and is not
\* varied where options.mongo is unset: nothing reads it then).
OptionSets == {o \in [mongo : BOOLEAN, mongoUri : {"", "mongodb://arg"},
                      checkDuplicate : BOOLEAN, googleSheet : BOOLEAN] :
                 o.mongo \/ o.mongoUri = ""}

\* data[key]; "" stands for undefined (both are falsy).
RECURSIVE Prop(_, _)
Prop(data, key) ==
    IF data = <<>> THEN ""
    ELSE IF data[Len(data)][1] = key THEN data[Len(data)][2]
    ELSE Prop(SubSeq(data, 1, Len(data) - 1), key)

\* a || b on strings
Or(a, b) == IF a # "" THEN a ELSE b

\* (Variant: a default is applied before the duplicate check.)
EmailOfDefaulted(data) == Or(Or(Prop(data, "email"), Prop(data, "Email")), "anonymous")

\* const email = data.email || data.Email
EmailOf(data) == Or(Prop(data, "email"), Prop(data, "Email"))

\* (Variant: Object.keys(data).)
ObjectKeys(data) == [i \in DOMAIN data |-> data[i][1]]

\* Object.values(data)
ObjectValues(data) == [i \in DOMAIN data |-> data[i][2]]

\* SurveyResponse.countDocuments({ email })
CountDocuments(email) == Cardinality({d \in docs : d.email = email})

\* (Variants: an off-by-one comparison; the answer is not looked at.)
IsDuplicateStrict(count) == count > 1
IsDuplicateIgnored(count) == FALSE

\* return count > 0
IsDuplicate(count) == count > 0

NoError == [kind |-> "", email |-> ""]
Err(kind, email) == [kind |-> kind, email |-> email]

\* (Variant: the googleSheet step is run without looking at the option.)
ToSheetsAlways(c) == [c EXCEPT !.pc = "append", !.values = << ObjectValues(c.data) >>]

\* handleSurveySubmission, lines 121-135: the googleSheet step, or the return.
ToSheets(c) ==
    IF c.options.googleSheet
    THEN [c EXCEPT !.pc = "append", !.values = << ObjectValues(c.data) >>]
    ELSE [c EXCEPT !.pc = "returned"]

\* (Variant: an error of the document-store step is recorded and the call
\* goes on to the googleSheet step.)
ThrowRecovered(c, kind, email) ==
    IF kind = "append"
    THEN [c EXCEPT !.pc = "thrown", !.error = Err(kind, email)]
    ELSE ToSheets([c EXCEPT !.error = Err(kind, email)])

\* An async call that throws: nothing in saveToMongoDB or
\* handleSurveySubmission catches, so the rejection reaches the caller.
Throw(c, kind, email) == [c EXCEPT !.pc = "thrown", !.error = Err(kind, email)]

\* (Variant: a default connection string stands in for a missing one.)
ConnectionStringDefaulted(uri) == Or(Or(uri, MONGODB_URI), "mongodb://localhost")

\* const connectionString = uri || MONGODB_URI
ConnectionString(uri) == Or(uri, MONGODB_URI)

\* (Variant: the attempt in progress is not looked at.)
HasAttemptNever(cch) == FALSE

\* if (!cached.promise): is a connection attempt cached?
HasAttempt(cch) == cch.promise # 0

\* (Variant: the promise of the failed attempt is kept.)
ConnectFailedKept(cch) == cch

\* catch (e) { cached.promise = null; throw e; }
ConnectFailed(cch) == [cch EXCEPT !.promise = 0]

\* dbConnect(uri) called by `caller`, lines 16-35: everything before
\* `await cached.promise`, on the cache cch and the promises prs.
\* (The promise of one mongoose.connect(uri): its state and its target.
\* A connection is named by the index of the promise that resolved to it.)
DbConnectSync(c, caller, cch, prs) ==
    LET connectionString == ConnectionString(c.options.mongoUri)
        d == [c EXCEPT !.ret = caller, !.ops = Append(@, "dbConnect"),
                       !.connectionString = connectionString]
    IN  IF connectionString = ""
        THEN [call |-> Throw(d, "configuration", ""), cached |-> cch, promises |-> prs]
        ELSE IF cch.conn # 0
        THEN [call |-> [d EXCEPT !.pc = "connected", !.conn = cch.conn],
              cached |-> cch, promises |-> prs]
        ELSE IF ~HasAttempt(cch)
        THEN [call |-> [d EXCEPT !.pc = "awaitConn", !.awaiting = Len(prs) + 1],
              cached |-> [cch EXCEPT !.promise = Len(prs) + 1],
              promises |-> Append(prs, [state |-> "pending", uri |-> connectionString])]
        ELSE [call |-> [d EXCEPT !.pc = "awaitConn", !.awaiting = cch.promise],
              cached |-> cch, promises |-> prs]

\* (Bookkeeping fields of a call: ops, the store and sheet operations it has
\* made; seen, the count its duplicate check was answered with; prior, the
\* number of documents with its email when it was called.)
\* handleSurveySubmission is called: lines 114-119 (into saveToMongoDB and
\* dbConnect) or 121-132, up to the first await.
Submit ==
    /\ Len(calls) < MaxCalls
    /\ \E data \in Payloads, options \in OptionSets :
         LET c == [data |-> data, options |-> options, pc |-> "", ret |-> "",
                   awaiting |-> 0, connectionString |-> "", conn |-> 0,
                   email |-> "", values |-> <<>>,
                   results |-> [mongo |-> 0, sheets |-> 0],
                   error |-> NoError, ops |-> <<>>, seen |-> -1,
                   prior |-> CountDocuments(EmailOf(data))]
             r == IF options.mongo
                  THEN DbConnectSync(c, "saveToMongoDB", cached, promises)
                  ELSE [call |-> ToSheets(c), cached |-> cached, promises |-> promises]
         IN  /\ calls' = Append(calls, r.call)
             /\ cached' = r.cached
             /\ promises' = r.promises
    /\ UNCHANGED <<MONGODB_URI, docs, sheet, bucketVars, clientVars>>

\* mongoose.connect settles.
ConnectSettles ==
    /\ \E k \in DOMAIN promises, outcome \in {"resolved", "rejected"} :
         /\ promises[k].state = "pending"
         /\ promises' = [promises EXCEPT ![k].state = outcome]
    /\ UNCHANGED <<MONGODB_URI, cached, docs, sheet, calls, bucketVars, clientVars>>

\* dbConnect, lines 36-43: after `await cached.promise`.
DbConnectResume ==
    \E i \in DOMAIN calls :
      LET c == calls[i] IN
      /\ c.pc = "awaitConn"
      /\ promises[c.awaiting].state # "pending"
      /\ IF promises[c.awaiting].state = "resolved"
         THEN /\ cached' = [cached EXCEPT !.conn = c.awaiting]
              /\ calls' = [calls EXCEPT ![i] =
                     [c EXCEPT !.pc = "connected", !.conn = c.awaiting]]
         ELSE /\ cached' = ConnectFailed(cached)
              /\ calls' = [calls EXCEPT ![i] = Throw(c, "connection", "")]
      /\ UNCHANGED <<MONGODB_URI, promises, docs, sheet, bucketVars, clientVars>>

\* saveToMongoDB resumes after `await dbConnect(mongoUri)`: lines 49-57 up
\* to the next await (checkDuplicateEmail's dbConnect), or lines 59-65 up to
\* `await newResponse.save()`.
SaveToMongoDB ==
    \E i \in DOMAIN calls :
      LET c == calls[i]
          email == EmailOf(c.data)
          d == [c EXCEPT !.email = email]
          r == IF c.options.checkDuplicate
               THEN IF email = ""
                    THEN [call |-> Throw(d, "email_required", ""),
                          cached |-> cached, promises |-> promises]
                    ELSE DbConnectSync(d, "checkDuplicateEmail", cached, promises)
               ELSE [call |-> [d EXCEPT !.pc = "save"],
                     cached |-> cached, promises |-> promises]
      IN  /\ c.pc = "connected"
          /\ c.ret = "saveToMongoDB"
          /\ calls' = [calls EXCEPT ![i] = r.call]
          /\ cached' = r.cached
          /\ promises' = r.promises
          /\ UNCHANGED <<MONGODB_URI, docs, sheet, bucketVars, clientVars>>

\* checkDuplicateEmail resumes after `await dbConnect(mongoUri)`: lines
\* 35-37, the count query is answered (or fails); then saveToMongoDB, lines
\* 54-65, decides and goes on up to `await newResponse.save()`.
CheckDuplicateEmail ==
    \E i \in DOMAIN calls, ok \in BOOLEAN :
      LET c == [calls[i] EXCEPT !.ops = Append(@, "countDocuments")]
          count == CountDocuments(c.email)
      IN  /\ c.pc = "connected"
          /\ c.ret = "checkDuplicateEmail"
          /\ calls' = [calls EXCEPT ![i] =
                 IF ~ok THEN Throw(c, "query", "")
                 ELSE IF IsDuplicate(count)
                 THEN Throw([c EXCEPT !.seen = count], "duplicate", c.email)
                 ELSE [c EXCEPT !.seen = count, !.pc = "save"]]
          /\ UNCHANGED <<MONGODB_URI, cached, promises, docs, sheet, bucketVars, clientVars>>

\* (Variant: the rejected save is caught, kept, and the call goes on.)
SaveFailedCaptured(c) == ToSheets([c EXCEPT !.error = Err("save", "")])

\* handleSurveySubmission, line 118: a rejected save is not caught.
SaveFailed(c) == Throw(c, "save", "")

\* (Variant: the document does not keep the email of the payload.)
NewResponseAnonymous(c, id) == [id |-> id, email |-> "anonymous", data |-> c.data]

\* new SurveyResponse({ email: email || 'anonymous', data: data })
NewResponse(c, id) == [id |-> id, email |-> Or(c.email, "anonymous"), data |-> c.data]

\* saveToMongoDB, line 65: newResponse.save() is performed by the store (or
\* fails); handleSurveySubmission, line 118, stores its result and goes on.
Save ==
    \E i \in DOMAIN calls, ok \in BOOLEAN :
      LET c == [calls[i] EXCEPT !.ops = Append(@, "save")] IN
      /\ c.pc = "save"
      /\ IF ok
         THEN /\ docs' = docs \cup {NewResponse(c, i)}
              /\ calls' = [calls EXCEPT ![i] = ToSheets([c EXCEPT !.results.mongo = i])]
         ELSE /\ calls' = [calls EXCEPT ![i] = SaveFailed(c)]
              /\ UNCHANGED docs
      /\ UNCHANGED <<MONGODB_URI, cached, promises, sheet, bucketVars, clientVars>>

\* handleSurveySubmission, lines 126-135: appendToGoogleSheet is performed
\* (or fails); its result is stored and the results are returned.
AppendToGoogleSheet ==
    \E i \in DOMAIN calls, ok \in BOOLEAN :
      LET c == [calls[i] EXCEPT !.ops = Append(@, "append")] IN
      /\ c.pc = "append"
      /\ IF ok
         THEN /\ sheet' = Append(sheet, [values |-> c.values, by |-> i])
              /\ calls' = [calls EXCEPT ![i] =
                     [c EXCEPT !.results.sheets = Len(sheet) + 1, !.pc = "returned"]]
         ELSE /\ calls' = [calls EXCEPT ![i] = Throw(c, "append", "")]
              /\ UNCHANGED sheet
      /\ UNCHANGED <<MONGODB_URI, cached, promises, docs, bucketVars, clientVars>>

\* ---- direct callers of dbConnect and getBucket ----

\* The uri argument of a direct dbConnect call; "" is undefined.
DirectUris == {"", "mongodb://arg", "mongodb://other"}

\* A waiter of a settled promise has its continuation queued as a microtask:
\* it runs before any task that could make a new call.
MicrotasksDrained ==
    \A j \in DOMAIN calls :
        calls[j].pc = "awaitConn" => promises[calls[j].awaiting].state = "pending"

\* dbConnect(uri) called from outside the package, lines 15-35, up to
\* `await cached.promise` (uri is kept in the field options.mongoUri).
CallDbConnect ==
    /\ Len(calls) < MaxConnects
    /\ MicrotasksDrained
    /\ \E uri \in DirectUris :
         LET c == [data |-> <<>>,
                   options |-> [mongo |-> TRUE, mongoUri |-> uri,
                                checkDuplicate |-> FALSE, googleSheet |-> FALSE],
                   pc |-> "", ret |-> "",
                   awaiting |-> 0, connectionString |-> "", conn |-> 0,
                   email |-> "", values |-> <<>>,
                   results |-> [mongo |-> 0, sheets |-> 0],
                   error |-> NoError, ops |-> <<>>, seen |-> -1, prior |-> 0]
             r == DbConnectSync(c, "direct", cached, promises)
         IN  /\ calls' = Append(calls, r.call)
             /\ cached' = r.cached
             /\ promises' = r.promises
    /\ UNCHANGED <<MONGODB_URI, docs, sheet, bucketVars, clientVars>>

\* getBucket's config: { credentials, bucketName }.
BucketConfigs == [credentials : {"key1", "key2"}, bucketName : {"b1", "b2"}]

\* getBucket(config), lines 11-20, on the cache <<st, bk>>; a new Storage
\* client gets the identity id.
GetBucket(config, st, bk, id) ==
    IF st # NoStorage /\ bk.name = config.bucketName
    THEN [cachedStorage |-> st, cachedBucket |-> bk, returned |-> bk, created |-> FALSE]
    ELSE LET storage == [id |-> id, credentials |-> config.credentials]
             bucket == [name |-> config.bucketName, storage |-> storage]
         IN  [cachedStorage |-> storage, cachedBucket |-> bucket,
              returned |-> bucket, created |-> TRUE]

CallGetBucket ==
    /\ Len(bucketCalls) < MaxBucketCalls
    /\ \E config \in BucketConfigs :
         LET r == GetBucket(config, cachedStorage, cachedBucket, Len(bucketCalls) + 1) IN
         /\ cachedStorage' = r.cachedStorage
         /\ cachedBucket' = r.cachedBucket
         /\ bucketCalls' = Append(bucketCalls,
                [config |-> config, returned |-> r.returned, created |-> r.created])
    /\ UNCHANGED <<MONGODB_URI, cached, promises, docs, sheet, calls, clientVars>>

\* process.env.MONGO_URI at module load; "" is unset.
EnvUris == {"", "mongodb://env"}

InitCache ==
    /\ ClientInit
    /\ MONGODB_URI \in EnvUris
    /\ cached = [conn |-> 0, promise |-> 0]
    /\ promises = <<>>
    /\ docs = {}
    /\ sheet = <<>>
    /\ calls = <<>>
    /\ cachedStorage = NoStorage
    /\ cachedBucket = NoBucket
    /\ bucketCalls = <<>>

NextCache ==
    \/ CallDbConnect
    \/ ConnectSettles
    \/ DbConnectResume
    \/ CallGetBucket

SpecCache == InitCache /\ [][NextCache]_vars

InitServer == ServerInit /\ ClientInit

NextServer ==
    \/ Submit
    \/ ConnectSettles
    \/ DbConnectResume
    \/ SaveToMongoDB
    \/ CheckDuplicateEmail
    \/ Save
    \/ AppendToGoogleSheet

SpecServer == InitServer /\ [][NextServer]_vars

-----------------------------------------------------------------------------
(* Properties: client (checked under SpecClient) *)

\* The number of occurrences of x in the sequence log.
Count(log, x) == Cardinality({k \in DOMAIN log : log[k] = x})

Pairs(log) == {log[k] : k \in DOMAIN log}

\* C1: after the final cleanup every add call of the component is matched by
\* exactly one remove call for the same event and handler, nothing the
\* component added is still subscribed, and nothing is removed that was not
\* added.
C1_AddsEqualRemoves ==
    mounted = "gone" =>
        /\ \A ev \in SurveyEvents : survey[ev] = {}
        /\ \A x \in Pairs(addCalls) \cup Pairs(removeCalls) :
               Count(addCalls, x) = Count(removeCalls, x)

\* C2: in every state each event holds at most one subscription of the
\* component per handler role (and per dynamic name), and one engine-fired
\* event calls the caller's handler for it at most once.
C2_NoDuplicateSubscriptions ==
    /\ \A ev \in SurveyEvents : \A h1, h2 \in survey[ev] :
           (h1.role = h2.role /\ h1.name = h2.name) => h1 = h2
    /\ fired.calls <= 1

\* C3: an upload event handled by the upload handler (a request was issued
\* and has settled) has had the engine's callback invoked exactly once in
\* total.
C3_ExactlyOneCallback ==
    \A k \in DOMAIN uploads :
        (uploads[k].posts > 0 /\ uploads[k].pending = 0) =>
            uploads[k].successCalls + uploads[k].errorCalls = 1

\* C4: when the request failed or its body could not be parsed, the handler
\* has reported callback("error"), has issued no second request, and no
\* exception has escaped the promise chain.
C4_FailureReportsError ==
    \A k \in DOMAIN uploads :
        (uploads[k].pending = 0 /\ uploads[k].outcomes # <<>>
         /\ uploads[k].outcomes[1] \in {"network_error", "unparseable"}) =>
            /\ uploads[k].errorCalls = 1
            /\ uploads[k].successCalls = 0
            /\ uploads[k].posts <= 1
            /\ uploads[k].unhandled = 0

-----------------------------------------------------------------------------
(* Properties: server (checked under SpecServer) *)

Did(c, op) == \E k \in DOMAIN c.ops : c.ops[k] = op
WroteNothing(i) ==
    /\ ~Did(calls[i], "save")
    /\ ~Did(calls[i], "append")
    /\ \A d \in docs : d.id # i
    /\ \A k \in DOMAIN sheet : sheet[k].by # i

\* Errors of a store that could not be reached or asked at all.
StoreUnavailable == {"configuration", "connection", "query"}

\* C5: a call with options.mongo and options.checkDuplicate whose email E
\* already had a document when it was called never writes to either sink and
\* never returns results; once its count query is answered it has failed
\* with the duplicate error carrying E (the only other way it ends is the
\* error of a store that could not be reached or queried).
C5_DuplicateRejected ==
    \A i \in DOMAIN calls :
        LET c == calls[i] IN
        (c.options.mongo /\ c.options.checkDuplicate
         /\ EmailOf(c.data) # "" /\ c.prior > 0) =>
            /\ WroteNothing(i)
            /\ c.pc # "returned"
            /\ c.seen # -1 =>
                   (c.pc = "thrown" /\ c.error = Err("duplicate", EmailOf(c.data)))
            /\ c.pc = "thrown" =>
                   c.error.kind \in {"duplicate"} \cup StoreUnavailable

C5_Witness ==
    \E i \in DOMAIN calls :
        /\ calls[i].options.mongo /\ calls[i].options.checkDuplicate
        /\ calls[i].options.googleSheet
        /\ calls[i].prior > 0
        /\ calls[i].pc = "thrown"
        /\ calls[i].error = Err("duplicate", "a@x.com")

\* C6: the check and the write are not atomic.  Every duplicate-checking call
\* that wrote a document had its check answered with count 0, and still two
\* such calls can leave two documents with the same email (the witness):
\* then both checks were answered before either write.
C6_ChecksPrecedeBothWrites ==
    \A d1, d2 \in docs :
        (d1 # d2 /\ d1.email = d2.email
         /\ calls[d1.id].options.checkDuplicate
         /\ calls[d2.id].options.checkDuplicate) =>
            /\ calls[d1.id].seen = 0
            /\ calls[d2.id].seen = 0
            /\ calls[d1.id].prior = 0
            /\ calls[d2.id].prior = 0

C6_Witness ==
    \E d1, d2 \in docs :
        /\ d1 # d2
        /\ d1.email = d2.email
        /\ d1.email = "a@x.com"
        /\ calls[d1.id].options.checkDuplicate
        /\ calls[d2.id].options.checkDuplicate

SaveRejected(c) == c.options.mongo /\ Did(c, "save") /\ c.results.mongo = 0

\* C7 (as claimed): with both sinks configured, a call whose document-store
\* save failed still attempts the spreadsheet append and returns results.
C7_FailureIsolation ==
    \A i \in DOMAIN calls :
        (calls[i].options.googleSheet /\ SaveRejected(calls[i])) =>
            /\ calls[i].pc \in {"append", "returned"}
            /\ calls[i].pc = "returned" => Did(calls[i], "append")

\* C7 (amended): with both sinks configured, a call whose document-store save
\* failed has thrown that error to its caller; it never attempts the
\* spreadsheet append and returns no results.
C7_SaveFailurePropagates ==
    \A i \in DOMAIN calls :
        (calls[i].options.googleSheet /\ SaveRejected(calls[i])) =>
            /\ calls[i].pc = "thrown"
            /\ calls[i].error.kind = "save"
            /\ ~Did(calls[i], "append")
            /\ calls[i].results.sheets = 0
            /\ \A k \in DOMAIN sheet : sheet[k].by # i

C7_Witness ==
    \E i \in DOMAIN calls :
        /\ calls[i].options.googleSheet
        /\ SaveRejected(calls[i])
        /\ calls[i].pc = "thrown"

\* C8: the document store gates the spreadsheet.  With options.mongo the
\* append is pending or made only after the save has returned its document;
\* a call that threw in the document-store step (duplicate check or save)
\* made no append and returned no results.
C8_MongoGatesSheets ==
    \A i \in DOMAIN calls :
        LET c == calls[i] IN
        /\ (c.options.mongo /\ (c.pc = "append" \/ Did(c, "append"))) =>
               /\ c.results.mongo = i
               /\ \E d \in docs : d.id = i
        /\ (c.pc = "thrown" /\ c.error.kind # "append") =>
               /\ c.options.mongo
               /\ ~Did(c, "append")
               /\ c.results.sheets = 0
               /\ \A k \in DOMAIN sheet : sheet[k].by # i

C8_Witness ==
    /\ \E i \in DOMAIN calls :
           /\ calls[i].options.mongo /\ calls[i].options.googleSheet
           /\ calls[i].pc = "returned"
           /\ calls[i].results.sheets # 0
    /\ \E i \in DOMAIN calls :
           /\ calls[i].options.googleSheet
           /\ calls[i].pc = "thrown"
           /\ calls[i].error.kind = "duplicate"

\* C9: a call with options.mongo and options.checkDuplicate whose payload has
\* neither email nor Email makes no count query, saves no document, appends
\* no row and returns no results; it fails with the missing-email error
\* (unless dbConnect itself failed first).
C9_MissingEmailRejected ==
    \A i \in DOMAIN calls :
        LET c == calls[i] IN
        (c.options.mongo /\ c.options.checkDuplicate
         /\ Prop(c.data, "email") = "" /\ Prop(c.data, "Email") = "") =>
            /\ ~Did(c, "countDocuments")
            /\ c.seen = -1
            /\ WroteNothing(i)
            /\ c.pc # "returned"
            /\ c.pc = "thrown" =>
                   c.error.kind \in {"email_required", "configuration", "connection"}

C9_Witness ==
    \E i \in DOMAIN calls :
        /\ calls[i].options.mongo /\ calls[i].options.checkDuplicate
        /\ calls[i].options.googleSheet
        /\ EmailOf(calls[i].data) = ""
        /\ calls[i].pc = "thrown"
        /\ calls[i].error.kind = "email_required"

\* C10: a call with only the spreadsheet configured makes exactly one append,
\* of one row holding the payload's values in the payload's own order, and
\* no dbConnect, count or save.
C10_SheetOnly ==
    \A i \in DOMAIN calls :
        LET c == calls[i] IN
        (~c.options.mongo /\ c.options.googleSheet) =>
            /\ c.ops \in {<<>>, <<"append">>}
            /\ c.pc \in {"returned", "thrown"} => c.ops = <<"append">>
            /\ c.pc = "thrown" => c.error.kind = "append"
            /\ Len(c.values) = 1
            /\ Len(c.values[1]) = Len(c.data)
            /\ \A k \in DOMAIN c.data : c.values[1][k] = c.data[k][2]
            /\ \A d \in docs : d.id # i
            /\ c.pc = "returned" =>
                   /\ Cardinality({k \in DOMAIN sheet : sheet[k].by = i}) = 1
                   /\ \A k \in DOMAIN sheet :
                          sheet[k].by = i => sheet[k].values = c.values

C10_Witness ==
    \E i \in DOMAIN calls :
        /\ ~calls[i].options.mongo /\ calls[i].options.googleSheet
        /\ calls[i].pc = "returned"
        /\ \E k \in DOMAIN sheet :
               /\ sheet[k].by = i
               /\ sheet[k].values = << <<"Ann", "a@x.com">> >>
        /\ docs = {}
        /\ promises = <<>>

\* C11: the results a call returns hold mongo exactly when options.mongo was
\* set (its save then succeeded) and sheets exactly when options.googleSheet
\* was set (its append then succeeded); a key is only ever set by its own
\* successful sink, and a sink whose option is absent is never called.
C11_ResultKeys ==
    \A i \in DOMAIN calls :
        LET c == calls[i] IN
        /\ c.pc = "returned" =>
               /\ (c.results.mongo # 0) <=> c.options.mongo
               /\ (c.results.sheets # 0) <=> c.options.googleSheet
        /\ c.results.mongo # 0 =>
               (c.options.mongo /\ \E d \in docs : d.id = i)
        /\ c.results.sheets # 0 =>
               (c.options.googleSheet /\ \E k \in DOMAIN sheet : sheet[k].by = i)
        /\ ~c.options.mongo =>
               /\ ~Did(c, "dbConnect") /\ ~Did(c, "countDocuments") /\ ~Did(c, "save")
               /\ \A d \in docs : d.id # i
        /\ ~c.options.googleSheet =>
               /\ ~Did(c, "append")
               /\ \A k \in DOMAIN sheet : sheet[k].by # i

C11_Witness ==
    /\ \E i \in DOMAIN calls :
           /\ calls[i].options.mongo /\ ~calls[i].options.googleSheet
           /\ calls[i].pc = "returned"
           /\ calls[i].results.mongo # 0 /\ calls[i].results.sheets = 0
    /\ \E i \in DOMAIN calls :
           /\ ~calls[i].options.mongo /\ ~calls[i].options.googleSheet
           /\ calls[i].pc = "returned"
           /\ calls[i].results = [mongo |-> 0, sheets |-> 0]

\* C17: checkDuplicateEmail(X), when its query is answered, says "exists"
\* exactly when the store holds a document with email X; and a call whose
\* save succeeded for a payload with email X leaves such a document, so that
\* every later check for X says "exists".
C17_DuplicateGuard ==
    [][ \A i \in DOMAIN calls :
          /\ ( /\ calls[i].pc = "connected"
               /\ calls[i].ret = "checkDuplicateEmail"
               /\ calls'[i] # calls[i]
               /\ calls'[i].error.kind # "query" )
             => LET stored == \E d \in docs : d.email = calls[i].email IN
                /\ (calls'[i].error.kind = "duplicate") <=> stored
                /\ (calls'[i].pc = "save") <=> ~stored
          /\ ( calls'[i].results.mongo # 0 /\ calls'[i].email # "" )
             => \E d \in docs' : d.email = calls'[i].email
      ]_vars

C17_Witness ==
    \E i, j \in DOMAIN calls :
        /\ calls[i].options.checkDuplicate
        /\ calls[i].seen = 0
        /\ calls[i].results.mongo # 0
        /\ calls[j].email = calls[i].email
        /\ calls[j].seen > 0
        /\ calls[j].error.kind = "duplicate"

-----------------------------------------------------------------------------
(* Properties: client, second part (checked under SpecClient) *)

\* The add calls made so far on event ev.
AddsOn(log, ev) == {k \in DOMAIN log : log[k][1] = ev}

\* This step is a re-render in which the caller changes nothing but the
\* function passed for the already bound name n.
RerenderWithNewHandler(n) ==
    /\ mounted = "yes" /\ mounted' = "yes"
    /\ renders' = renders + 1
    /\ \E h \in survey[n] : h.role = "dyn" /\ h.name = n
    /\ otherCallbacks[n] \in CallerFuncs
    /\ otherCallbacks'[n] \in CallerFuncs
    /\ otherCallbacks'[n] # otherCallbacks[n]
    /\ customCssGiven' = customCssGiven
    /\ customCssGiven => customCss' = customCss
    /\ uploadApiUrl' = uploadApiUrl

\* C12: a re-render that supplies a different handler for a bound name makes
\* no add call on that event, and an engine-fired event on it then looks up
\* the handler of the latest render, never an older one.
C12_RebindWithoutAdd ==
    [][ /\ \A n \in DynNameSet \cap SurveyEvents :
               RerenderWithNewHandler(n) => AddsOn(addCalls', n) = AddsOn(addCalls, n)
        /\ fired' # fired => fired'.func = otherCallbacks[fired'.event]
      ]_vars

\* C14: when the last request of an upload settles after the component was
\* torn down (unmounted while the request was in flight), the upload ends
\* with exactly one call of the engine's callback and nothing is thrown.
C14_TeardownUploadCompletes ==
    [][ \A i \in DOMAIN uploads :
            ( /\ mounted = "gone"
              /\ uploads[i].pending > 0
              /\ uploads'[i].pending = 0 )
            => /\ uploads'[i].successCalls + uploads'[i].errorCalls = 1
               /\ uploads'[i].unhandled = 0
      ]_vars

UploadHandlers == {h \in survey["onUploadFiles"] : h.role = "upload"}

\* C15: the upload channel holds the component's upload handler exactly when
\* the binding in force was made with an endpoint (and then only the handler
\* of that binding), and every remove call for an upload handler names a
\* handler that an earlier add call subscribed.
C15_UploadSubscribedIffEndpoint ==
    /\ UploadHandlers =
           IF effect.uploadApiUrl # ""
           THEN {handleUploadFiles(effect.gen, effect.uploadApiUrl)} ELSE {}
    /\ \A k \in DOMAIN removeCalls :
           removeCalls[k][2].role = "upload"
           => \E j \in DOMAIN addCalls : addCalls[j] = removeCalls[k]

C15_Witness ==
    /\ mounted = "yes"
    /\ effect.uploadApiUrl = ""
    /\ UploadHandlers = {}
    /\ \E k \in DOMAIN removeCalls : removeCalls[k][2].role = "upload"
    /\ \E k \in DOMAIN addCalls : addCalls[k][2].role = "upload"

-----------------------------------------------------------------------------
(* Properties: completion (checked under SpecComplete) *)

\* C13: a run of handleComplete has finished only if the caller's callback,
\* the one of the latest render when the event fired, was called and what it
\* returned has settled; with no callback supplied none was called.
C13_HandlerAwaitsCallback ==
    \A i \in DOMAIN completions :
        LET r == completions[i] IN
        /\ r.func = r.prop
        /\ (r.func = "absent") <=> (r.cb = "none")
        /\ r.handler = "finished" => r.cb \in {"none", "resolved", "rejected"}

C13_Witness ==
    \E i \in DOMAIN completions :
        /\ completions[i].handler = "finished"
        /\ completions[i].func = "c2"
        /\ completions[i].cb = "resolved"
        /\ renders = 2

-----------------------------------------------------------------------------
(* Properties: connection caches (checked under SpecCache) *)

Direct(i) == calls[i].ret = "direct"

\* getBucket returns a handle of the bucket named in the call, and a call
\* naming the cached bucket gets the cached handle, no client being made.
C16_BucketHalf ==
    \A k \in DOMAIN bucketCalls :
        /\ bucketCalls[k].returned.name = bucketCalls[k].config.bucketName
        /\ ( k > 1 /\ bucketCalls[k].config.bucketName = bucketCalls[k-1].returned.name )
           => /\ ~bucketCalls[k].created
              /\ bucketCalls[k].returned = bucketCalls[k-1].returned

\* C16: the connection a call gets corresponds to the configuration of that
\* call: dbConnect returns a connection made for the call's connection
\* string, getBucket a handle of the call's bucket; a call with the cached
\* configuration gets the cached connection and makes no new one.
C16_ConnectionFollowsConfiguration ==
    /\ C16_BucketHalf
    /\ \A i \in DOMAIN calls :
           (Direct(i) /\ calls[i].pc = "connected")
           => promises[calls[i].conn].uri = calls[i].connectionString

\* C18: a dbConnect call with no uri argument, made with no MONGO_URI in
\* the environment, fails at once with a configuration error and changes
\* neither the cache (conn, promise) nor the set of connection attempts.
C18_NoUriFailsFast ==
    [][ ( /\ Len(calls') = Len(calls) + 1
          /\ calls'[Len(calls')].ret = "direct"
          /\ calls'[Len(calls')].options.mongoUri = ""
          /\ MONGODB_URI = "" )
        => /\ calls'[Len(calls')].pc = "thrown"
           /\ calls'[Len(calls')].error.kind = "configuration"
           /\ cached' = cached
           /\ promises' = promises
      ]_vars

C18_Witness ==
    \E i \in DOMAIN calls :
        /\ i > 1
        /\ Direct(i)
        /\ calls[i].options.mongoUri = ""
        /\ MONGODB_URI = ""
        /\ calls[i].error.kind = "configuration"
        /\ calls[i-1].pc = "awaitConn"
        /\ cached.promise # 0

NoConnectFailure == \A k \in DOMAIN promises : promises[k].state # "rejected"

\* C19: as long as no connection attempt has failed, at most one
\* mongoose.connect has been started, however the dbConnect calls
\* interleave, and every call that returned got the same connection.
C19_SingleConnect ==
    NoConnectFailure
    => /\ Len(promises) <= 1
       /\ \A i, j \in DOMAIN calls :
              (calls[i].pc = "connected" /\ calls[j].pc = "connected")
              => calls[i].conn = calls[j].conn /\ calls[i].conn # 0

C19_Witness ==
    /\ NoConnectFailure
    /\ Len(promises) = 1
    /\ Len(calls) = 3
    /\ \A i \in DOMAIN calls : Direct(i) /\ calls[i].pc = "connected"
    /\ calls[1].awaiting = 1
    /\ calls[2].awaiting = 1
    /\ calls[3].awaiting = 0

\* C20: a failed connection attempt is not cached.  When a dbConnect call
\* rejects because its attempt failed, the cache is left with conn null and
\* promise null; every call that awaited a failed attempt ends with the
\* connection error; and the next dbConnect call (with a connection string)
\* after a failed attempt starts a new attempt and awaits it.
C20_FailureNotCached ==
    [][ /\ \A i \in DOMAIN calls :
              ( calls[i].pc = "awaitConn" /\ calls'[i].pc = "thrown" )
              => /\ calls'[i].error.kind = "connection"
                 /\ cached'.conn = 0
                 /\ cached'.promise = 0
        /\ \A i \in DOMAIN calls' :
              ( /\ calls'[i].awaiting # 0
                /\ promises'[calls'[i].awaiting].state = "rejected"
                /\ calls'[i].pc # "awaitConn" )
              => calls'[i].pc = "thrown" /\ calls'[i].error.kind = "connection"
        /\ ( /\ Len(calls') = Len(calls) + 1
             /\ calls'[Len(calls')].connectionString # ""
             /\ promises # <<>>
             /\ promises[Len(promises)].state = "rejected" )
           => /\ Len(promises') = Len(promises) + 1
              /\ promises'[Len(promises')].state = "pending"
              /\ calls'[Len(calls')].pc = "awaitConn"
              /\ calls'[Len(calls')].awaiting = Len(promises')
              /\ cached'.promise = Len(promises')
      ]_vars

C20_Witness ==
    /\ Len(calls) = 3
    /\ Len(promises) = 2
    /\ promises[1].state = "rejected"
    /\ \A i \in {1, 2} :
           /\ Direct(i)
           /\ calls[i].awaiting = 1
           /\ calls[i].error.kind = "connection"
    /\ calls[3].awaiting = 2

=============================================================================
